---- MODULE Spec2Model ----
(***************************************************************************)
(* Model of the red-black tree engine of ipr::util::rb_tree (utility.hxx): *)
(* the embedded tree chain<Node> and the owning tree container<T>, both    *)
(* built on core<Node> (rotate_left, rotate_right, fixup_insert).          *)
(*                                                                         *)
(* Nodes are identified by the order of their construction (1, 2, ...);    *)
(* NULL is the null pointer.  The links and colours of link<Node> are the   *)
(* sequences left, right, parent and color, indexed by node.               *)
(***************************************************************************)
EXTENDS Integers, Sequences, FiniteSets, TLC

\* ---- bounds of the model ----
MaxKey == 6        \* keys are 1..MaxKey, ordered by the comparator
MaxNodes == 8      \* nodes the caller of a chain owns
MaxCalls == 6      \* insert calls
MaxLen == 3        \* elements pushed on a sequence
MaxElem == 2       \* elements are 1..MaxElem
MaxType == 2       \* types are 1..MaxType, ordered by node_id
MaxMasters == 2    \* master_decl_data a decl_factory makes
MaxDecls == 2      \* decl_rep a decl_factory makes
MaxReadKey == 3    \* keys of the tree the readers search are 1..MaxReadKey
MaxReadCalls == 3  \* insert calls made on the tree the readers search
MaxFixNodes == 8   \* nodes inserted one step of fixup_insert at a time

NULL == 0
Black == "Black"
Red == "Red"
Uninit == "Uninit" \* colour of a node from allocate(), before insert assigns it

Keys == 1..MaxKey

\* The key of the n-th node a caller of the chain owns: with more nodes than
\* keys, some of the caller's nodes compare equal.
NodeKey(n) == ((n - 1) % MaxKey) + 1

VARIABLES
    flavor,   \* "chain" or "container": which class template the tree is
    root,     \* core::root
    count,    \* core::count
    left,     \* link::arm[Left]   of every constructed node
    right,    \* link::arm[Right]  of every constructed node
    parent,   \* link::arm[Parent] of every constructed node
    color,    \* link::color       of every constructed node
    data,     \* the key a node carries (node<T>::data, or the caller's node)
    ub,       \* TRUE once a null link has been dereferenced
    calls,    \* history: number of insert calls made
    seen,     \* history: every key passed to insert
    rets,     \* history: for each key, the identities insert returned for it
    last,     \* history: the last call, its argument and its result
    skind,    \* which implementation of Sequence<T> the sequence object is
    items,    \* the elements of the sequence object, in get() order
    got,      \* history: the last get on the sequence object and its outcome
    mdd,      \* the master_decl_data of a decl_factory, in order of creation
    drep,     \* the decl_rep of a decl_factory, in order of creation
    masters,  \* Overload::masters
    dres,     \* history: the last operation on the declarations, its outcome
    readers,  \* the find calls in progress, one for each reader
    farm,     \* the cells of a stable_farm or val_sequence and the references
              \* handed out
    lex,      \* the ranges given to lexicographical_compare and its results
    fx        \* the insert call in progress: its position in fixup_insert

treeVars == <<flavor, root, count, left, right, parent, color, data, ub,
              calls, seen, rets, last>>

seqVars == <<skind, items, got>>

declVars == <<mdd, drep, masters, dres>>

auxVars == <<readers, farm, lex, fx>>

vars == <<treeVars, seqVars, declVars, auxVars>>

\* The tree as one value, for the operators that model the member functions.
Tree == [root |-> root, count |-> count, left |-> left, right |-> right,
         parent |-> parent, color |-> color, data |-> data, ub |-> ub]

\* A three-way comparator over keys: negative, zero or positive.
comp(a, b) == a - b

\* ---- core<Node> ----

size(t) == t.count

\* x->right() = y->left(); if (y->left() != nullptr) y->left()->parent() = x;
rotate_left_inner(t, x, y) ==
    IF t.left[y] # NULL
      THEN [t EXCEPT !.right[x] = t.left[y], !.parent[t.left[y]] = x]
      ELSE [t EXCEPT !.right[x] = t.left[y]]

\* rotate_left hanging y on the other arm of x's parent.
rotate_left_hang_wrong_arm(t, x, y) ==
    IF t.parent[x] = NULL
      THEN [t EXCEPT !.parent[y] = t.parent[x], !.root = y]
    ELSE IF t.left[t.parent[x]] = x
      THEN [t EXCEPT !.parent[y] = t.parent[x], !.right[t.parent[x]] = y]
    ELSE [t EXCEPT !.parent[y] = t.parent[x], !.left[t.parent[x]] = y]

\* y->parent() = x->parent(); y takes x's place in the root or in an arm of
\* x's parent.
rotate_left_hang(t, x, y) ==
    IF t.parent[x] = NULL
      THEN [t EXCEPT !.parent[y] = t.parent[x], !.root = y]
    ELSE IF t.left[t.parent[x]] = x
      THEN [t EXCEPT !.parent[y] = t.parent[x], !.left[t.parent[x]] = y]
    ELSE [t EXCEPT !.parent[y] = t.parent[x], !.right[t.parent[x]] = y]

\* The end of rotate_left without x->parent() = y.
rotate_left_join_forgets_parent(t, x, y) == [t EXCEPT !.left[y] = x]

\* y->left() = x; x->parent() = y;
rotate_left_join(t, x, y) == [t EXCEPT !.left[y] = x, !.parent[x] = y]

rotate_left_about(t, x, y) ==
    rotate_left_join(rotate_left_hang(rotate_left_inner(t, x, y), x, y), x, y)

\* Node* y = x->right(); a null y is dereferenced.
rotate_left(t, x) ==
    IF t.right[x] = NULL THEN [t EXCEPT !.ub = TRUE]
    ELSE rotate_left_about(t, x, t.right[x])

\* x->left() = y->right(); if (y->right() != nullptr) y->right()->parent() = x;
rotate_right_inner(t, x, y) ==
    IF t.right[y] # NULL
      THEN [t EXCEPT !.left[x] = t.right[y], !.parent[t.right[y]] = x]
      ELSE [t EXCEPT !.left[x] = t.right[y]]

\* rotate_right making y the root whatever x's parent is.
rotate_right_hang_takes_root(t, x, y) ==
    IF t.parent[x] = NULL
      THEN [t EXCEPT !.parent[y] = t.parent[x], !.root = y]
    ELSE IF t.right[t.parent[x]] = x
      THEN [t EXCEPT !.parent[y] = t.parent[x], !.right[t.parent[x]] = y,
                     !.root = y]
    ELSE [t EXCEPT !.parent[y] = t.parent[x], !.left[t.parent[x]] = y,
                   !.root = y]

\* y->parent() = x->parent(); y takes x's place in the root or in an arm of
\* x's parent.
rotate_right_hang(t, x, y) ==
    IF t.parent[x] = NULL
      THEN [t EXCEPT !.parent[y] = t.parent[x], !.root = y]
    ELSE IF t.right[t.parent[x]] = x
      THEN [t EXCEPT !.parent[y] = t.parent[x], !.right[t.parent[x]] = y]
    ELSE [t EXCEPT !.parent[y] = t.parent[x], !.left[t.parent[x]] = y]

\* y->right() = x; x->parent() = y;
rotate_right_join(t, x, y) == [t EXCEPT !.right[y] = x, !.parent[x] = y]

rotate_right_about(t, x, y) ==
    rotate_right_join(rotate_right_hang(rotate_right_inner(t, x, y), x, y), x, y)

\* Node* y = x->left(); a null y is dereferenced.
rotate_right(t, x) ==
    IF t.left[x] = NULL THEN [t EXCEPT !.ub = TRUE]
    ELSE rotate_right_about(t, x, t.left[x])

\* The condition of the while loop of fixup_insert.
fixup_cond(t, z) ==
    /\ z # t.root
    /\ t.parent[z] # NULL
    /\ t.color[t.parent[z]] = Red

\* fixup_recolor leaving z's parent Red.
fixup_recolor_parent_stays_red(t, z, y) ==
    [t |-> [t EXCEPT !.color[y] = Black, !.color[t.parent[t.parent[z]]] = Red],
     z |-> t.parent[t.parent[z]]]

\* The uncle y is Red: recolour and continue from the grandparent.
fixup_recolor(t, z, y) ==
    [t |-> [t EXCEPT !.color[t.parent[z]] = Black,
                     !.color[y] = Black,
                     !.color[t.parent[t.parent[z]]] = Red],
     z |-> t.parent[t.parent[z]]]

\* The recolouring of the rotation case leaving z's parent Red.
fixup_recolor_up_grandparent_only(t, z) ==
    [t EXCEPT !.color[t.parent[t.parent[z]]] = Red]

\* z->parent()->color = Black; z->parent()->parent()->color = Red;
fixup_recolor_up(t, z) ==
    [t EXCEPT !.color[t.parent[z]] = Black,
              !.color[t.parent[t.parent[z]]] = Red]

\* if (z->parent()->right() == z) { z = z->parent(); rotate_left(z); }
fixup_straighten_left(t, z) ==
    IF t.right[t.parent[z]] = z
      THEN [t |-> rotate_left(t, t.parent[z]), z |-> t.parent[z]]
      ELSE [t |-> t, z |-> z]

\* The end of the rotation case without its recolouring.
fixup_rotate_right_end_no_recolor(t, z) ==
    IF t.ub \/ t.parent[z] = NULL \/ t.parent[t.parent[z]] = NULL
      THEN [t EXCEPT !.ub = TRUE]
      ELSE rotate_right(t, t.parent[t.parent[z]])

\* Recolour parent and grandparent, rotate_right(z->parent()->parent()).
fixup_rotate_right_end(t, z) ==
    IF t.ub \/ t.parent[z] = NULL \/ t.parent[t.parent[z]] = NULL
      THEN [t EXCEPT !.ub = TRUE]
      ELSE rotate_right(fixup_recolor_up(t, z), t.parent[t.parent[z]])

fixup_rotate_left_case_end(s) ==
    [t |-> fixup_rotate_right_end(s.t, s.z), z |-> s.z]

\* The uncle is absent or Black, the parent is a left child.
fixup_rotate_in_left(t, z) ==
    fixup_rotate_left_case_end(fixup_straighten_left(t, z))

\* if (z->parent()->left() == z) { z = z->parent(); rotate_right(z); }
fixup_straighten_right(t, z) ==
    IF t.left[t.parent[z]] = z
      THEN [t |-> rotate_right(t, t.parent[z]), z |-> t.parent[z]]
      ELSE [t |-> t, z |-> z]

\* Recolour parent and grandparent, rotate_left(z->parent()->parent()).
fixup_rotate_left_end(t, z) ==
    IF t.ub \/ t.parent[z] = NULL \/ t.parent[t.parent[z]] = NULL
      THEN [t EXCEPT !.ub = TRUE]
      ELSE rotate_left(fixup_recolor_up(t, z), t.parent[t.parent[z]])

fixup_rotate_right_case_end(s) ==
    [t |-> fixup_rotate_left_end(s.t, s.z), z |-> s.z]

\* The uncle is absent or Black, the parent is a right child.
fixup_rotate_in_right(t, z) ==
    fixup_rotate_right_case_end(fixup_straighten_right(t, z))

\* The body of the while loop, z's parent p and grandparent g at hand.
fixup_cases(t, z, p, g) ==
    IF g = NULL THEN [t |-> [t EXCEPT !.ub = TRUE], z |-> z]
    ELSE IF p = t.left[g]
      THEN IF t.right[g] # NULL /\ t.color[t.right[g]] = Red
             THEN fixup_recolor(t, z, t.right[g])
             ELSE fixup_rotate_in_left(t, z)
      ELSE IF t.left[g] # NULL /\ t.color[t.left[g]] = Red
             THEN fixup_recolor(t, z, t.left[g])
             ELSE fixup_rotate_in_right(t, z)

\* One iteration of the while loop of fixup_insert.
fixup_step(t, z) == fixup_cases(t, z, t.parent[z], t.parent[t.parent[z]])

RECURSIVE fixup_loop(_, _)
fixup_continue(s) == fixup_loop(s.t, s.z)

fixup_loop(t, z) ==
    IF t.ub THEN t
    ELSE IF z # t.root /\ t.parent[z] = NULL THEN [t EXCEPT !.ub = TRUE]
    ELSE IF fixup_cond(t, z) THEN fixup_continue(fixup_step(t, z))
    ELSE t

\* fixup_insert returning with the root's colour as the loop left it.
fixup_root_black_skipped(t) == t

\* root->color = Node::Black;
fixup_root_black(t) ==
    IF t.ub THEN t ELSE [t EXCEPT !.color[t.root] = Black]

\* fixup_insert without the final root->color = Black.
fixup_insert_root_as_is(t, z) == fixup_loop(t, z)

fixup_insert(t, z) == fixup_root_black(fixup_loop(t, z))

\* ---- slots: a Node** is the root pointer or an arm of a node ----

RootSlot == [up |-> NULL, dir |-> "root"]

Deref(t, slot) ==
    IF slot.dir = "root" THEN t.root
    ELSE IF slot.dir = "left" THEN t.left[slot.up]
    ELSE t.right[slot.up]

Store(t, slot, n) ==
    IF slot.dir = "root" THEN [t EXCEPT !.root = n]
    ELSE IF slot.dir = "left" THEN [t EXCEPT !.left[slot.up] = n]
    ELSE [t EXCEPT !.right[slot.up] = n]

\* *slot = n; n->parent() = up; n->color = Red;
link_red(t, slot, up, n) ==
    [Store(t, slot, n) EXCEPT !.parent[n] = up, !.color[n] = Red]

\* ++this->count;
count_up(t) == [t EXCEPT !.count = @ + 1]

\* ---- chain<Node> ----

\* The descent of find taking the left arm on a zero ordering too.
RECURSIVE chain_find_loop_le(_, _, _)
chain_find_loop_le(t, key, result) ==
    IF result = NULL THEN NULL
    ELSE IF comp(key, t.data[result]) <= 0
      THEN chain_find_loop_le(t, key, t.left[result])
    ELSE chain_find_loop_le(t, key, t.right[result])

RECURSIVE chain_find_loop(_, _, _)
chain_find_loop(t, key, result) ==
    IF result = NULL THEN NULL
    ELSE IF comp(key, t.data[result]) < 0
      THEN chain_find_loop(t, key, t.left[result])
    ELSE IF comp(key, t.data[result]) > 0
      THEN chain_find_loop(t, key, t.right[result])
    ELSE result

chain_find(t, key) == chain_find_loop(t, key, t.root)

\* The descent of chain::insert taking the left arm on a positive ordering
\* too.
RECURSIVE chain_descent_always_left(_, _, _, _)
chain_descent_always_left(t, z, slot, up) ==
    IF Deref(t, slot) = NULL THEN [slot |-> slot, up |-> up, found |-> FALSE]
    ELSE IF comp(t.data[z], t.data[Deref(t, slot)]) # 0
      THEN chain_descent_always_left(t, z,
                                     [up |-> Deref(t, slot), dir |-> "left"],
                                     Deref(t, slot))
    ELSE [slot |-> slot, up |-> up, found |-> TRUE]

\* The descent of chain::insert: the slot and the parent it stops at.
RECURSIVE chain_descent(_, _, _, _)
chain_descent(t, z, slot, up) ==
    IF Deref(t, slot) = NULL THEN [slot |-> slot, up |-> up, found |-> FALSE]
    ELSE IF comp(t.data[z], t.data[Deref(t, slot)]) < 0
      THEN chain_descent(t, z, [up |-> Deref(t, slot), dir |-> "left"],
                         Deref(t, slot))
    ELSE IF comp(t.data[z], t.data[Deref(t, slot)]) > 0
      THEN chain_descent(t, z, [up |-> Deref(t, slot), dir |-> "right"],
                         Deref(t, slot))
    ELSE [slot |-> slot, up |-> up, found |-> TRUE]

\* chain::insert putting z in the slot of the equal node it found.
chain_link_replaces_found(t, z, d) ==
    IF t.root = NULL
      THEN [t EXCEPT !.root = z, !.color[z] = Black]
    ELSE IF Deref(t, d.slot) = NULL
      THEN fixup_insert(link_red(t, d.slot, d.up, z), z)
    ELSE [Store(t, d.slot, z) EXCEPT !.parent[z] = d.up]

\* What chain::insert does to the links once the descent d has stopped.
chain_link(t, z, d) ==
    IF t.root = NULL
      THEN [t EXCEPT !.root = z, !.color[z] = Black]
    ELSE IF Deref(t, d.slot) = NULL
      THEN fixup_insert(link_red(t, d.slot, d.up, z), z)
    ELSE t

\* chain::insert without ++this->count.
chain_insert_uncounted(t, z) ==
    [t |-> chain_link(t, z, chain_descent(t, z, RootSlot, NULL)), ret |-> z]

chain_insert(t, z) ==
    [t |-> count_up(chain_link(t, z, chain_descent(t, z, RootSlot, NULL))),
     ret |-> z]

\* ---- container<T> ----

\* allocate() and the construction of T from the key; the colour is not set.
\* The new node is the last one: Len(data).
make_node(t, key) ==
    [t EXCEPT !.left = Append(@, NULL), !.right = Append(@, NULL),
              !.parent = Append(@, NULL), !.color = Append(@, Uninit),
              !.data = Append(@, key)]

RECURSIVE container_find_loop(_, _, _)
container_find_loop(t, key, x) ==
    IF x = NULL THEN NULL
    ELSE IF comp(key, t.data[x]) < 0
      THEN container_find_loop(t, key, t.left[x])
    ELSE IF comp(key, t.data[x]) > 0
      THEN container_find_loop(t, key, t.right[x])
    ELSE x

container_find(t, key) == container_find_loop(t, key, t.root)

\* The for loop of container::insert taking the right arm on a zero ordering.
RECURSIVE container_descent_ge(_, _, _, _, _, _)
container_descent_ge(t, key, slot, par, where, found) ==
    IF where = NULL \/ found
      THEN [slot |-> slot, parent |-> par, where |-> where]
    ELSE IF comp(key, t.data[where]) < 0
      THEN container_descent_ge(t, key, [up |-> where, dir |-> "left"], where,
                                t.left[where], FALSE)
    ELSE container_descent_ge(t, key, [up |-> where, dir |-> "right"], where,
                              t.right[where], FALSE)

\* The for loop of container::insert; its increment is where = *slot.
RECURSIVE container_descent(_, _, _, _, _, _)
container_descent(t, key, slot, par, where, found) ==
    IF where = NULL \/ found
      THEN [slot |-> slot, parent |-> par, where |-> where]
    ELSE IF comp(key, t.data[where]) < 0
      THEN container_descent(t, key, [up |-> where, dir |-> "left"], where,
                             t.left[where], FALSE)
    ELSE IF comp(key, t.data[where]) > 0
      THEN container_descent(t, key, [up |-> where, dir |-> "right"], where,
                             t.right[where], FALSE)
    ELSE container_descent(t, key, slot, par, Deref(t, slot), TRUE)

\* The first insert: the tree m holds the node just made, which becomes root.
container_insert_first(m) ==
    [t |-> count_up([m EXCEPT !.root = Len(m.data),
                              !.color[Len(m.data)] = Black]),
     ret |-> Len(m.data)]

\* The key is absent: the tree m holds the node just made, which is linked at
\* the slot of the descent d, counted and handed to fixup_insert.
container_insert_new(m, d) ==
    [t |-> fixup_insert(count_up(link_red(m, d.slot, d.parent, Len(m.data))),
                        Len(m.data)),
     ret |-> Len(m.data)]

\* container::insert colouring the node it stops at, found or new.
container_insert_at_colors_found(t, key, d) ==
    IF d.where = NULL
      THEN container_insert_new(make_node(t, key), d)
      ELSE [t |-> [t EXCEPT !.color[d.where] = Red], ret |-> d.where]

\* container::insert counting every call, as chain::insert does.
container_insert_at_counts_calls(t, key, d) ==
    IF d.where = NULL
      THEN container_insert_new(make_node(t, key), d)
      ELSE [t |-> count_up(t), ret |-> d.where]

\* container::insert after the descent d in a tree that is not empty.
container_insert_at(t, key, d) ==
    IF d.where = NULL
      THEN container_insert_new(make_node(t, key), d)
      ELSE [t |-> t, ret |-> d.where]

container_insert(t, key) ==
    IF t.root = NULL
      THEN container_insert_first(make_node(t, key))
      ELSE container_insert_at(t, key,
               container_descent(t, key, RootSlot, NULL, t.root, FALSE))

\* ---- the state machine ----

NoCall == [op |-> "none", key |-> NULL, z |-> NULL, ret |-> NULL, fresh |-> FALSE]

\* No operation has been made on the declarations.
NoRead == [op |-> "none"]

\* The declarations are not part of the specifications of the other components.
DeclIdle ==
    /\ mdd = <<>>
    /\ drep = <<>>
    /\ masters = <<>>
    /\ dres = NoRead

\* No reader, no farm, no comparison and no insert in progress.
NoReaders == <<>>
NoFarm == [kind |-> "none", cells |-> <<>>, refs |-> <<>>]
NoLex == [a |-> <<>>, b |-> <<>>, ab |-> 0, ba |-> 0, called |-> FALSE]
NoFix == [pc |-> "idle"]

AuxIdle ==
    /\ readers = NoReaders
    /\ farm = NoFarm
    /\ lex = NoLex
    /\ fx = NoFix

\* No get has been called on the sequence object.
NoGet == [op |-> "none", i |-> 0, size |-> 0, thrown |-> FALSE, value |-> NULL]

\* The nodes that exist before the first call: the caller of a chain owns its
\* nodes, each constructed by link() (null arms, Red); a container has none.
Constructed(f) == IF f = "chain" THEN MaxNodes ELSE 0

Init ==
    /\ flavor \in {"chain", "container"}
    /\ root = NULL
    /\ count = 0
    /\ left = [n \in 1..Constructed(flavor) |-> NULL]
    /\ right = [n \in 1..Constructed(flavor) |-> NULL]
    /\ parent = [n \in 1..Constructed(flavor) |-> NULL]
    /\ color = [n \in 1..Constructed(flavor) |-> Red]
    /\ data = [n \in 1..Constructed(flavor) |-> NodeKey(n)]
    /\ ub = FALSE
    /\ calls = 0
    /\ seen = {}
    /\ rets = [k \in Keys |-> {}]
    /\ last = NoCall
    /\ skind = "none"
    /\ items = <<>>
    /\ got = NoGet
    /\ DeclIdle
    /\ AuxIdle

\* An insert call with argument key (and node z) has returned r.
Inserted(r, key, z) ==
    /\ root' = r.t.root
    /\ count' = r.t.count
    /\ left' = r.t.left
    /\ right' = r.t.right
    /\ parent' = r.t.parent
    /\ color' = r.t.color
    /\ data' = r.t.data
    /\ ub' = r.t.ub
    /\ calls' = calls + 1
    /\ seen' = seen \cup {key}
    /\ rets' = [rets EXCEPT ![key] = @ \cup {r.ret}]
    /\ last' = [op |-> "insert", key |-> key, z |-> z, ret |-> r.ret,
                fresh |-> key \notin seen]
    /\ UNCHANGED flavor
    /\ UNCHANGED seqVars
    /\ UNCHANGED declVars
    /\ UNCHANGED auxVars

\* A find call with argument key has returned r.
Found(r, key) ==
    /\ last' = [op |-> "find", key |-> key, z |-> NULL, ret |-> r,
                fresh |-> key \notin seen]
    /\ UNCHANGED <<flavor, root, count, left, right, parent, color, data, ub,
                   calls, seen, rets>>
    /\ UNCHANGED seqVars
    /\ UNCHANGED declVars
    /\ UNCHANGED auxVars

ChainInsert(z) ==
    /\ flavor = "chain"
    /\ ~ub
    /\ calls < MaxCalls
    /\ Inserted(chain_insert(Tree, z), data[z], z)

ContainerInsert(key) ==
    /\ flavor = "container"
    /\ ~ub
    /\ calls < MaxCalls
    /\ Inserted(container_insert(Tree, key), key, NULL)

ChainFind(key) ==
    /\ flavor = "chain"
    /\ ~ub
    /\ Found(chain_find(Tree, key), key)

ContainerFind(key) ==
    /\ flavor = "container"
    /\ ~ub
    /\ Found(container_find(Tree, key), key)

\* decl_sequence::get: the chain of a scope is keyed by position, and a
\* position is subscripted by finding it in the chain.
decl_sequence_get(t, i) == chain_find(t, i)

\* The chain is the private member decls of a decl_sequence, a node is a
\* scope_datum and its key the scope_pos: get(i) is called.
DeclSequenceGet(i) ==
    /\ flavor = "chain"
    /\ ~ub
    /\ last' = [op |-> "get", key |-> i, z |-> NULL,
                ret |-> decl_sequence_get(Tree, i), fresh |-> FALSE]
    /\ UNCHANGED <<flavor, root, count, left, right, parent, color, data, ub,
                   calls, seen, rets>>
    /\ UNCHANGED seqVars
    /\ UNCHANGED declVars
    /\ UNCHANGED auxVars

Next ==
    \/ \E z \in 1..Len(data) : ChainInsert(z)
    \/ \E key \in Keys : ContainerInsert(key)
    \/ \E key \in Keys : ChainFind(key)
    \/ \E key \in Keys : ContainerFind(key)
    \/ \E i \in 0..(MaxLen - 1) : DeclSequenceGet(i)

Spec == Init /\ [][Next]_vars

\* ---- implementations of ipr::Sequence<T> (impl.hxx) ----

Elems == 1..MaxElem
Indices == (0 - 2)..(MaxLen + 1)

\* An int converted to std::size_t: negative values wrap to the top of the
\* range.  std::size_t has 32 bits or more; 2^30 keeps the sum representable.
SizeTModulus == 2^30
ToSizeT(p) == p % SizeTModulus

Returned(v) == [thrown |-> FALSE, value |-> v]
Thrown == [thrown |-> TRUE, value |-> NULL]

\* ref_sequence: size() is the deque's, get(p) is *pointer(this->at(p)).
ref_sequence_size(its) == Len(its)
ref_sequence_get(its, p) ==
    IF ToSizeT(p) >= Len(its) THEN Thrown ELSE Returned(its[ToSizeT(p) + 1])

\* val_sequence: size() is the distance from begin to end, get(p) checks p and
\* advances begin() by p; push_back emplaces after the mark, the last element.
val_sequence_size(its) == Len(its)
val_sequence_get(its, p) ==
    IF p < 0 \/ p >= val_sequence_size(its) THEN Thrown
    ELSE Returned(its[p + 1])
val_sequence_push_back(its, x) == Append(its, x)

\* empty_sequence
empty_sequence_size(its) == 0
empty_sequence_get(its, p) == Thrown

\* singleton_declset: its holds the datum.
singleton_declset_size(its) == 1
singleton_declset_get(its, i) ==
    IF i = 1 THEN Returned(its[1]) ELSE Thrown

\* size() and get() through the virtual functions of Sequence<T>.
Sequence_size(kind, its) ==
    CASE kind = "ref" -> ref_sequence_size(its)
      [] kind = "val" -> val_sequence_size(its)
      [] kind = "empty" -> empty_sequence_size(its)
      [] kind = "singleton" -> singleton_declset_size(its)

Sequence_get(kind, its, p) ==
    CASE kind = "ref" -> ref_sequence_get(its, p)
      [] kind = "val" -> val_sequence_get(its, p)
      [] kind = "empty" -> empty_sequence_get(its, p)
      [] kind = "singleton" -> singleton_declset_get(its, p)

\* Sequence<T>::operator[](p) is get(p).
Sequence_subscript(kind, its, p) == Sequence_get(kind, its, p)

\* The tree is not part of the specifications of the other components.
TreeIdle ==
    /\ flavor = "none"
    /\ root = NULL
    /\ count = 0
    /\ left = <<>>
    /\ right = <<>>
    /\ parent = <<>>
    /\ color = <<>>
    /\ data = <<>>
    /\ ub = FALSE
    /\ calls = 0
    /\ seen = {}
    /\ rets = [k \in Keys |-> {}]
    /\ last = NoCall

SeqInit ==
    /\ TreeIdle
    /\ DeclIdle
    /\ AuxIdle
    /\ skind \in {"ref", "val", "empty", "singleton"}
    /\ items \in IF skind = "singleton" THEN {<<d>> : d \in Elems} ELSE {<<>>}
    /\ got = NoGet

\* A get (or operator[]) with index p has ended with outcome r.
Got(op, p, r) ==
    /\ got' = [op |-> op, i |-> p, size |-> Sequence_size(skind, items),
               thrown |-> r.thrown, value |-> r.value]
    /\ UNCHANGED <<skind, items>>
    /\ UNCHANGED treeVars
    /\ UNCHANGED declVars
    /\ UNCHANGED auxVars

RefPushBack(x) ==
    /\ skind = "ref"
    /\ Len(items) < MaxLen
    /\ items' = Append(items, x)
    /\ got' = NoGet
    /\ UNCHANGED skind
    /\ UNCHANGED treeVars
    /\ UNCHANGED declVars
    /\ UNCHANGED auxVars

RefPushFront(x) ==
    /\ skind = "ref"
    /\ Len(items) < MaxLen
    /\ items' = <<x>> \o items
    /\ got' = NoGet
    /\ UNCHANGED skind
    /\ UNCHANGED treeVars
    /\ UNCHANGED declVars
    /\ UNCHANGED auxVars

ValPushBack(x) ==
    /\ skind = "val"
    /\ Len(items) < MaxLen
    /\ items' = val_sequence_push_back(items, x)
    /\ got' = NoGet
    /\ UNCHANGED skind
    /\ UNCHANGED treeVars
    /\ UNCHANGED declVars
    /\ UNCHANGED auxVars

SeqGet(p) ==
    /\ skind # "none"
    /\ Got("get", p, Sequence_get(skind, items, p))

SeqSubscript(p) ==
    /\ skind # "none"
    /\ Got("subscript", p, Sequence_subscript(skind, items, p))

SeqNext ==
    \/ \E x \in Elems : RefPushBack(x)
    \/ \E x \in Elems : RefPushFront(x)
    \/ \E x \in Elems : ValPushBack(x)
    \/ \E p \in Indices : SeqGet(p)
    \/ \E p \in Indices : SeqSubscript(p)

SeqSpec == SeqInit /\ [][SeqNext]_vars

\* ---- lookup of a name in a scope (impl.hxx) ----

\* The names a lookup may ask for: those of the members and one more, which
\* no member carries.
Names == 1..(MaxElem + 1)

\* empty_overload, the member "missing" of a scope.
missing == [kind |-> "empty_overload", decl |-> NULL]

\* The member "overload" of the i-th element of a homogeneous scope.
member_overload(i) == [kind |-> "singleton_overload", decl |-> i + 1]

\* The Overload a heterogeneous scope keeps for the name of its i-th member.
scope_overload(i) == [kind |-> "Overload", decl |-> i]

empty_overload_size == 0
empty_overload_get(p) == Thrown

singleton_overload_size == 1

\* The number of declarations of name n among the members its.
RECURSIVE declared_count(_, _, _)
declared_count(its, n, i) ==
    IF i > Len(its) THEN 0
    ELSE (IF its[i] = n THEN 1 ELSE 0) + declared_count(its, n, i + 1)

Overload_size_of(ov, its) ==
    IF ov.kind = "empty_overload" THEN empty_overload_size
    ELSE IF ov.kind = "singleton_overload" THEN singleton_overload_size
    ELSE declared_count(its, its[ov.decl], 1)

\* The loop of homogeneous_scope::operator[] returning the overload of a
\* member whatever its name.
RECURSIVE homogeneous_scope_loop_any_name(_, _, _, _)
homogeneous_scope_loop_any_name(its, n, i, s) ==
    IF i < s
      THEN IF val_sequence_get(its, i).thrown
             THEN [thrown |-> TRUE, ov |-> missing]
           ELSE [thrown |-> FALSE, ov |-> member_overload(i)]
    ELSE [thrown |-> FALSE, ov |-> missing]

\* The loop of homogeneous_scope::operator[]: an element is the name of the
\* member it stands for.
RECURSIVE homogeneous_scope_loop(_, _, _, _)
homogeneous_scope_loop(its, n, i, s) ==
    IF i < s
      THEN IF val_sequence_get(its, i).thrown
             THEN [thrown |-> TRUE, ov |-> missing]
           ELSE IF val_sequence_get(its, i).value = n
             THEN [thrown |-> FALSE, ov |-> member_overload(i)]
           ELSE homogeneous_scope_loop(its, n, i + 1, s)
    ELSE [thrown |-> FALSE, ov |-> missing]

\* homogeneous_scope::operator[] searching from the second member on.
homogeneous_scope_subscript_from_second(its, n) ==
    homogeneous_scope_loop(its, n, 1, val_sequence_size(its))

homogeneous_scope_subscript(its, n) ==
    homogeneous_scope_loop(its, n, 0, val_sequence_size(its))

\* The first member of its, from position i on, that carries the name n.
RECURSIVE first_declared(_, _, _)
first_declared(its, n, i) ==
    IF i > Len(its) THEN NULL
    ELSE IF its[i] = n THEN i
    ELSE first_declared(its, n, i + 1)

\* Scope::operator[]: the Overload stored under the name, or missing.
Scope_subscript(its, n) ==
    IF first_declared(its, n, 1) = NULL
      THEN [thrown |-> FALSE, ov |-> missing]
    ELSE [thrown |-> FALSE, ov |-> scope_overload(first_declared(its, n, 1))]

Lookup(kind, its, n) ==
    IF kind = "homogeneous_scope" THEN homogeneous_scope_subscript(its, n)
    ELSE Scope_subscript(its, n)

ScopeInit ==
    /\ TreeIdle
    /\ DeclIdle
    /\ AuxIdle
    /\ skind \in {"homogeneous_scope", "Scope"}
    /\ items = <<>>
    /\ got = NoGet

\* A member named n is added to the scope.
ScopePushBack(n) ==
    /\ Len(items) < MaxLen
    /\ items' = val_sequence_push_back(items, n)
    /\ got' = NoGet
    /\ UNCHANGED skind
    /\ UNCHANGED treeVars
    /\ UNCHANGED declVars
    /\ UNCHANGED auxVars

\* scope[n] has ended with outcome r.
LookedUp(n, r) ==
    /\ got' = [op |-> "lookup", name |-> n, thrown |-> r.thrown, ov |-> r.ov,
               size |-> Overload_size_of(r.ov, items), i |-> 0,
               at |-> Returned(NULL)]
    /\ UNCHANGED <<skind, items>>
    /\ UNCHANGED treeVars
    /\ UNCHANGED declVars
    /\ UNCHANGED auxVars

ScopeLookup(n) ==
    /\ skind # "none"
    /\ LookedUp(n, Lookup(skind, items, n))

\* The empty overload a lookup has returned is indexed at position p.
MissingGet(p) ==
    /\ got.op # "none"
    /\ ~got.thrown
    /\ got.ov = missing
    /\ got' = [got EXCEPT !.op = "get", !.i = p, !.at = empty_overload_get(p)]
    /\ UNCHANGED <<skind, items>>
    /\ UNCHANGED treeVars
    /\ UNCHANGED declVars
    /\ UNCHANGED auxVars

ScopeNext ==
    \/ \E n \in Elems : ScopePushBack(n)
    \/ \E n \in Names : ScopeLookup(n)
    \/ \E p \in Indices : MissingGet(p)

ScopeSpec == ScopeInit /\ [][ScopeNext]_vars

\* ---- declarations: decl_factory, decl_rep, Overload (impl.hxx) ----

\* A type is identified by its node_id.
Types == 1..MaxType

\* The type a producer gives to a master it enters in no overload set.
LooseTypes == {1}

\* The Overload the declarations are entered in, as a pointer, and the name
\* and the region it was created with.
TheOverload == 1
TheName == 1
TheRegion == 1

\* The declarations as one value: the chain Overload::entries (a node of the
\* chain is a master_decl_data, its key the type), the two farms of the
\* decl_factory and Overload::masters.
World == [t |-> Tree, mdd |-> mdd, drep |-> drep, masters |-> masters]

\* link<Node>::link for one more node of the chain, carrying key.
link_construct(t, key) ==
    [t EXCEPT !.left = Append(@, NULL), !.right = Append(@, NULL),
              !.parent = Append(@, NULL), !.color = Append(@, Red),
              !.data = Append(@, key)]

\* master_decl_data::master_decl_data(ovl, t), of the object self.
master_decl_data_new(ovl, ty, self) ==
    [master_data |-> self, decl |-> NULL, type |-> ty, declset |-> <<>>,
     def |-> NULL, langlinkage |-> NULL, overload |-> ovl, home |-> NULL]

master_info_make(w, ovl, ty) ==
    [w EXCEPT !.t = link_construct(@, ty),
              !.mdd = Append(@, master_decl_data_new(ovl, ty, Len(@) + 1))]

ref_sequence_push_back(its, x) == Append(its, x)

\* decl_rep::decl_rep(mdd) leaving the decl-set of the master as it is.
decl_rep_new_unregistered(w, m, self) ==
    [w EXCEPT !.drep = Append(@, [master_data |-> m, decl |-> self])]

\* decl_rep::decl_rep(mdd), of the object self.
decl_rep_new(w, m, self) ==
    [w EXCEPT !.drep = Append(@, [master_data |-> m, decl |-> self]),
              !.mdd[m].declset = ref_sequence_push_back(@, self)]

decls_make(w, m) == decl_rep_new(w, m, Len(w.drep) + 1)

\* Overload::push_back(data): the master enters the chain of entries and the
\* list of masters.
Overload_push_back(w, m) ==
    [w EXCEPT !.t = chain_insert(@, m).t, !.masters = Append(@, m)]

\* decl_factory::declare: the new master and the new declaration are the last
\* of their farms.
declare_enter(w) == Overload_push_back(w, Len(w.mdd))

declare(w, ovl, ty) ==
    declare_enter(decls_make(master_info_make(w, ovl, ty), Len(w.mdd) + 1))

redeclare(w, e) == decls_make(w, e)

\* Overload::lookup: the entry of the type, or null.
Overload_lookup(w, ty) == chain_find(w.t, ty)

Overload_size(w) == Len(w.masters)

\* The decl-set of entry e, or the empty sequence for the null entry.
declset_of(w, e) == IF e = NULL THEN <<>> ELSE w.mdd[e].declset

\* Overload::operator[](type).
Overload_subscript(w, ty) == declset_of(w, Overload_lookup(w, ty))

\* Registering declaration d as the definition of its decl-set: def is a
\* public data member of the master data, and registering assigns it.
register_definition(w, d) ==
    [w EXCEPT !.mdd[w.drep[d].master_data].def = d]

\* The outcomes of a member function: a value returned, the logic_error of
\* util::check, or the dereference of a null pointer, which is undefined and
\* either stops the program or yields some value.
Value(v) == {[outcome |-> "returned", value |-> v]}
LogicError == {[outcome |-> "logic_error", value |-> NULL]}
NullDeref == {[outcome |-> "crash", value |-> NULL],
              [outcome |-> "garbage", value |-> NULL]}

\* util::check(p) followed by the use of *p.
check(p) == IF p = NULL THEN LogicError ELSE Value(p)

\* p->..., with no check of p.
unchecked(p, r) == IF p = NULL THEN NullDeref ELSE r

\* p->..., after util::check(p).
checked(p, r) == IF p = NULL THEN LogicError ELSE r

\* The master data a declaration points to (a record with null pointers for
\* the null pointer, whose fields are never used).
NoMaster == master_decl_data_new(NULL, NULL, NULL)
master_of(w, d) ==
    IF w.drep[d].master_data = NULL THEN NoMaster
    ELSE w.mdd[w.drep[d].master_data]

overload_name(ovl) == TheName
overload_where(ovl) == TheRegion

\* The accessors of decl_rep, and lang_linkage and home_region of impl::Decl.
decl_rep_name(w, d) ==
    unchecked(w.drep[d].master_data,
              unchecked(master_of(w, d).overload,
                        Value(overload_name(master_of(w, d).overload))))

decl_rep_type(w, d) ==
    unchecked(w.drep[d].master_data, Value(master_of(w, d).type))

decl_rep_scope(w, d) ==
    unchecked(w.drep[d].master_data,
              unchecked(master_of(w, d).overload,
                        Value(overload_where(master_of(w, d).overload))))

decl_rep_master(w, d) ==
    unchecked(w.drep[d].master_data, check(master_of(w, d).decl))

decl_rep_decl_set(w, d) ==
    unchecked(w.drep[d].master_data, Value(master_of(w, d).declset))

decl_rep_definition(w, d) ==
    unchecked(w.drep[d].master_data, check(master_of(w, d).def))

Decl_lang_linkage(w, d) ==
    checked(w.drep[d].master_data, check(master_of(w, d).langlinkage))

Decl_home_region(w, d) ==
    checked(w.drep[d].master_data, check(master_of(w, d).home))

Accessors == {"name", "type", "scope", "master", "decl_set", "definition",
              "lang_linkage", "home_region"}

accessor(acc, w, d) ==
    CASE acc = "name" -> decl_rep_name(w, d)
      [] acc = "type" -> decl_rep_type(w, d)
      [] acc = "scope" -> decl_rep_scope(w, d)
      [] acc = "master" -> decl_rep_master(w, d)
      [] acc = "decl_set" -> decl_rep_decl_set(w, d)
      [] acc = "definition" -> decl_rep_definition(w, d)
      [] acc = "lang_linkage" -> Decl_lang_linkage(w, d)
      [] acc = "home_region" -> Decl_home_region(w, d)

\* The pointers an accessor goes through, in order, up to the first null one.
read_path(acc, w, d) ==
    IF acc \in {"name", "scope"}
      THEN <<w.drep[d].master_data, master_of(w, d).overload>>
    ELSE IF acc = "master"
      THEN <<w.drep[d].master_data, master_of(w, d).decl>>
    ELSE IF acc = "definition"
      THEN <<w.drep[d].master_data, master_of(w, d).def>>
    ELSE IF acc = "lang_linkage"
      THEN <<w.drep[d].master_data, master_of(w, d).langlinkage>>
    ELSE IF acc = "home_region"
      THEN <<w.drep[d].master_data, master_of(w, d).home>>
    ELSE <<w.drep[d].master_data>>

unbound(path) == \E i \in 1..Len(path) : path[i] = NULL

\* The Overload is constructed, with no entry, and the decl_factory with
\* empty farms.
DeclInit ==
    /\ flavor = "entries"
    /\ root = NULL
    /\ count = 0
    /\ left = <<>>
    /\ right = <<>>
    /\ parent = <<>>
    /\ color = <<>>
    /\ data = <<>>
    /\ ub = FALSE
    /\ calls = 0
    /\ seen = {}
    /\ rets = [k \in Keys |-> {}]
    /\ last = NoCall
    /\ skind = "none"
    /\ items = <<>>
    /\ got = NoGet
    /\ DeclIdle
    /\ AuxIdle

\* An operation on the declarations has left them as w.
Entered(w) ==
    /\ root' = w.t.root
    /\ count' = w.t.count
    /\ left' = w.t.left
    /\ right' = w.t.right
    /\ parent' = w.t.parent
    /\ color' = w.t.color
    /\ data' = w.t.data
    /\ ub' = w.t.ub
    /\ mdd' = w.mdd
    /\ drep' = w.drep
    /\ masters' = w.masters
    /\ UNCHANGED <<flavor, calls, seen, rets, last>>
    /\ UNCHANGED seqVars
    /\ UNCHANGED auxVars

\* The first declaration of the name with type ty: the scope has looked the
\* type up in the overload set and found no entry.
Declare(ty) ==
    /\ flavor = "entries"
    /\ Len(mdd) < MaxMasters
    /\ Len(drep) < MaxDecls
    /\ Overload_lookup(World, ty) = NULL
    /\ Entered(declare(World, TheOverload, ty))
    /\ dres' = [op |-> "declare", arg |-> ty, ret |-> Len(drep) + 1,
                outcome |-> "returned", value |-> Len(drep) + 1,
                before |-> NULL, unbound |-> FALSE]

Redeclare(e) ==
    /\ flavor = "entries"
    /\ Len(drep) < MaxDecls
    /\ Entered(redeclare(World, e))
    /\ dres' = [op |-> "redeclare", arg |-> e, ret |-> Len(drep) + 1,
                outcome |-> "returned", value |-> Len(drep) + 1,
                before |-> NULL, unbound |-> FALSE]

\* master_info.make(nullptr, t) by a producer that has no overload set yet
\* and enters the master in none.
MakeMaster(ty) ==
    /\ flavor = "entries"
    /\ Len(mdd) < MaxMasters
    /\ Entered(master_info_make(World, NULL, ty))
    /\ dres' = [op |-> "make", arg |-> ty, ret |-> Len(mdd) + 1,
                outcome |-> "returned", value |-> Len(mdd) + 1,
                before |-> NULL, unbound |-> FALSE]

RegisterDefinition(d) ==
    /\ flavor = "entries"
    /\ Entered(register_definition(World, d))
    /\ dres' = [op |-> "define", arg |-> d, ret |-> NULL,
                outcome |-> "returned", value |-> NULL,
                before |-> mdd[drep[d].master_data].def, unbound |-> FALSE]

\* Accessor acc of declaration d has ended with outcome r.
Read(acc, d, r) ==
    /\ flavor = "entries"
    /\ dres' = [op |-> acc, arg |-> d, ret |-> NULL, outcome |-> r.outcome,
                value |-> r.value, before |-> NULL,
                unbound |-> unbound(read_path(acc, World, d))]
    /\ UNCHANGED <<mdd, drep, masters>>
    /\ UNCHANGED treeVars
    /\ UNCHANGED seqVars
    /\ UNCHANGED auxVars

DeclNext ==
    \/ \E ty \in Types : Declare(ty)
    \/ \E e \in 1..Len(mdd) : Redeclare(e)
    \/ \E ty \in LooseTypes : MakeMaster(ty)
    \/ \E d \in 1..Len(drep) : RegisterDefinition(d)
    \/ \E acc \in Accessors, d \in 1..Len(drep) :
         \E r \in accessor(acc, World, d) : Read(acc, d, r)

DeclSpec == DeclInit /\ [][DeclNext]_vars

\* ---- find called by several readers (utility.hxx) ----

ReadKeys == 1..MaxReadKey
Readers == {"r1", "r2"}

\* A reader that is in no call of find.
IdleReader == [pc |-> "idle", key |-> NULL, cur |-> NULL, ret |-> NULL]

\* The entry of find: the local variable is initialised from this->root.
find_enter(t, key) == [pc |-> "loop", key |-> key, cur |-> t.root, ret |-> NULL]

\* One evaluation of the loop of find that also makes the node it stops at
\* the root of the tree.
find_step_moves_to_root(t, rd) ==
    IF rd.cur = NULL
      THEN [t |-> t, rd |-> [rd EXCEPT !.pc = "done", !.ret = NULL]]
    ELSE IF comp(rd.key, t.data[rd.cur]) < 0
      THEN [t |-> t, rd |-> [rd EXCEPT !.cur = t.left[rd.cur]]]
    ELSE IF comp(rd.key, t.data[rd.cur]) > 0
      THEN [t |-> t, rd |-> [rd EXCEPT !.cur = t.right[rd.cur]]]
    ELSE [t |-> [t EXCEPT !.root = rd.cur],
          rd |-> [rd EXCEPT !.pc = "done", !.ret = rd.cur]]

\* One evaluation of the loop of chain::find or container::find by a reader:
\* the test of the loop, the comparison and the move to an arm, or the return.
\* The tree is read only.
find_step(t, rd) ==
    IF rd.cur = NULL
      THEN [t |-> t, rd |-> [rd EXCEPT !.pc = "done", !.ret = NULL]]
    ELSE IF comp(rd.key, t.data[rd.cur]) < 0
      THEN [t |-> t, rd |-> [rd EXCEPT !.cur = t.left[rd.cur]]]
    ELSE IF comp(rd.key, t.data[rd.cur]) > 0
      THEN [t |-> t, rd |-> [rd EXCEPT !.cur = t.right[rd.cur]]]
    ELSE [t |-> t, rd |-> [rd EXCEPT !.pc = "done", !.ret = rd.cur]]

Reading == \E r \in Readers : readers[r].pc # "idle"

\* The nodes the owner of a chain has constructed, one for each key; a
\* container has none.
ReadConstructed(f) == IF f = "chain" THEN MaxReadKey ELSE 0

ReadInit ==
    /\ flavor \in {"chain", "container"}
    /\ root = NULL
    /\ count = 0
    /\ left = [n \in 1..ReadConstructed(flavor) |-> NULL]
    /\ right = [n \in 1..ReadConstructed(flavor) |-> NULL]
    /\ parent = [n \in 1..ReadConstructed(flavor) |-> NULL]
    /\ color = [n \in 1..ReadConstructed(flavor) |-> Red]
    /\ data = [n \in 1..ReadConstructed(flavor) |-> n]
    /\ ub = FALSE
    /\ calls = 0
    /\ seen = {}
    /\ rets = [k \in Keys |-> {}]
    /\ last = NoCall
    /\ skind = "none"
    /\ items = <<>>
    /\ got = NoGet
    /\ DeclIdle
    /\ readers = [r \in Readers |-> IdleReader]
    /\ farm = NoFarm
    /\ lex = NoLex
    /\ fx = NoFix

\* The tree after a call by a reader is t, and the reader is as rd.
ReaderMoved(r, t, rd) ==
    /\ root' = t.root
    /\ count' = t.count
    /\ left' = t.left
    /\ right' = t.right
    /\ parent' = t.parent
    /\ color' = t.color
    /\ data' = t.data
    /\ ub' = t.ub
    /\ readers' = [readers EXCEPT ![r] = rd]
    /\ UNCHANGED <<flavor, calls, seen, rets, last>>
    /\ UNCHANGED seqVars
    /\ UNCHANGED declVars
    /\ UNCHANGED <<farm, lex, fx>>

\* The owner inserts while no reader is in a call of find.
OwnerInsert(key) ==
    /\ ~Reading
    /\ ~ub
    /\ calls < MaxReadCalls
    /\ readers' = readers
    /\ IF flavor = "chain"
         THEN Inserted(chain_insert(Tree, key), key, key)
         ELSE Inserted(container_insert(Tree, key), key, NULL)

ReaderCalls(r, key) ==
    /\ readers[r].pc = "idle"
    /\ ReaderMoved(r, Tree, find_enter(Tree, key))

ReaderSteps(r) ==
    /\ readers[r].pc = "loop"
    /\ ReaderMoved(r, find_step(Tree, readers[r]).t,
                   find_step(Tree, readers[r]).rd)

ReaderReturns(r) ==
    /\ readers[r].pc = "done"
    /\ ReaderMoved(r, Tree, IdleReader)

ReadNext ==
    \/ \E key \in ReadKeys : OwnerInsert(key)
    \/ \E r \in Readers, key \in ReadKeys : ReaderCalls(r, key)
    \/ \E r \in Readers : ReaderSteps(r)
    \/ \E r \in Readers : ReaderReturns(r)

ReadSpec == ReadInit /\ [][ReadNext]_vars

\* ---- stable_farm and val_sequence as stores of elements (impl.hxx) ----

\* The addresses the allocator of the forward_list may give to a node.
Addrs == 1..(MaxLen + 1)

\* The addresses of the nodes of the list.
in_use(cells) == {cells[i].addr : i \in 1..Len(cells)}

\* The position in the list of the node at address a; 0 for before_begin().
RECURSIVE position_of(_, _, _)
position_of(cells, a, i) ==
    IF i > Len(cells) THEN 0
    ELSE IF cells[i].addr = a THEN i
    ELSE position_of(cells, a, i + 1)

\* forward_list::emplace_after(pos, v): a new node, at the address a the
\* allocator gives, is linked after the node at position pos; no other node
\* is touched.
emplace_after(cells, pos, a, v) ==
    SubSeq(cells, 1, pos) \o <<[addr |-> a, val |-> v]>>
      \o SubSeq(cells, pos + 1, Len(cells))

\* emplace_front constructing the element in the node that is the front.
emplace_front_in_place(cells, a, v) ==
    IF cells = <<>> THEN emplace_after(cells, 0, a, v)
    ELSE [cells EXCEPT ![1].val = v]

emplace_front(cells, a, v) == emplace_after(cells, 0, a, v)

\* stable_farm::make: the reference returned is the address of the front.
stable_farm_make(f, a, v) ==
    [f EXCEPT !.cells = emplace_front(@, a, v),
              !.refs = Append(@, [addr |-> emplace_front(f.cells, a, v)[1].addr,
                                  val |-> v])]

\* val_sequence::push_back: mark is the address of the last node.
val_sequence_emplace(f, a, v) ==
    [f EXCEPT !.cells = emplace_after(@, position_of(@, f.mark, 1), a, v),
              !.mark = a,
              !.refs = Append(@, [addr |-> a, val |-> v])]

FarmInit ==
    /\ TreeIdle
    /\ skind = "none"
    /\ items = <<>>
    /\ got = NoGet
    /\ DeclIdle
    /\ readers = NoReaders
    /\ farm \in {[kind |-> k, cells |-> <<>>, refs |-> <<>>, mark |-> 0] :
                   k \in {"stable_farm", "val_sequence"}}
    /\ lex = NoLex
    /\ fx = NoFix

FarmMake(a, v) ==
    /\ farm.kind = "stable_farm"
    /\ Len(farm.cells) < MaxLen
    /\ a \notin in_use(farm.cells)
    /\ farm' = stable_farm_make(farm, a, v)
    /\ UNCHANGED <<treeVars, seqVars, declVars, readers, lex, fx>>

FarmPushBack(a, v) ==
    /\ farm.kind = "val_sequence"
    /\ Len(farm.cells) < MaxLen
    /\ a \notin in_use(farm.cells)
    /\ farm' = val_sequence_emplace(farm, a, v)
    /\ UNCHANGED <<treeVars, seqVars, declVars, readers, lex, fx>>

FarmNext ==
    \/ \E a \in Addrs, v \in Elems : FarmMake(a, v)
    \/ \E a \in Addrs, v \in Elems : FarmPushBack(a, v)

FarmSpec == FarmInit /\ [][FarmNext]_vars

\* ---- lexicographical_compare (utility.hxx) ----

\* The ranges: sequences of at most MaxLen elements.
RECURSIVE RangesOfLength(_)
RangesOfLength(n) ==
    IF n = 0 THEN {<<>>}
    ELSE {Append(r, e) : r \in RangesOfLength(n - 1), e \in Elems}

Ranges == UNION {RangesOfLength(n) : n \in 0..MaxLen}

\* The return after the loop, taking the longer range for the smaller.
lexicographical_compare_end_longer_first(a, b, i) ==
    IF i > Len(a) THEN (IF i > Len(b) THEN 0 ELSE 1) ELSE 0 - 1

\* The return after the loop: i is the position both iterators are at.
lexicographical_compare_end(a, b, i) ==
    IF i > Len(a) THEN (IF i > Len(b) THEN 0 ELSE 0 - 1) ELSE 1

\* The loop, with both iterators at position i.
RECURSIVE lexicographical_compare_loop(_, _, _)
lexicographical_compare_loop(a, b, i) ==
    IF i <= Len(a) /\ i <= Len(b)
      THEN IF comp(a[i], b[i]) # 0 THEN comp(a[i], b[i])
           ELSE lexicographical_compare_loop(a, b, i + 1)
    ELSE lexicographical_compare_end(a, b, i)

lexicographical_compare(a, b) == lexicographical_compare_loop(a, b, 1)

LexInit ==
    /\ TreeIdle
    /\ skind = "none"
    /\ items = <<>>
    /\ got = NoGet
    /\ DeclIdle
    /\ readers = NoReaders
    /\ farm = NoFarm
    /\ lex \in {[a |-> a, b |-> b, ab |-> 0, ba |-> 0, called |-> FALSE] :
                  a \in Ranges, b \in Ranges}
    /\ fx = NoFix

\* The two ranges are compared, in both orders.
LexCompare ==
    /\ ~lex.called
    /\ lex' = [lex EXCEPT !.ab = lexicographical_compare(lex.a, lex.b),
                          !.ba = lexicographical_compare(lex.b, lex.a),
                          !.called = TRUE]
    /\ UNCHANGED <<treeVars, seqVars, declVars, readers, farm, fx>>

LexNext == LexCompare

LexSpec == LexInit /\ [][LexNext]_vars

\* ---- observers of the tree ----

Children(n) == {left[n], right[n]} \ {NULL}

RECURSIVE Closure(_)
Closure(S) ==
    LET S2 == S \cup UNION {Children(n) : n \in S}
    IN IF S2 = S THEN S ELSE Closure(S2)

\* The nodes below and including n, following left and right links.
Subtree(n) == IF n = NULL THEN {} ELSE Closure({n})

\* The nodes linked in the tree.
Linked == Subtree(root)

\* The numbers of Black nodes on the paths from n down to a null link.
RECURSIVE BlackCounts(_, _)
BlackCounts(n, fuel) ==
    IF n = NULL THEN {0}
    ELSE IF fuel = 0 THEN {-1, -2}
    ELSE LET b == IF color[n] = Black THEN 1 ELSE 0
         IN {c + b : c \in BlackCounts(left[n], fuel - 1)
                            \cup BlackCounts(right[n], fuel - 1)}

\* The nodes in in-order: left subtree, node, right subtree.
RECURSIVE InOrder(_, _)
InOrder(n, fuel) ==
    IF n = NULL \/ fuel = 0 THEN <<>>
    ELSE InOrder(left[n], fuel - 1) \o <<n>> \o InOrder(right[n], fuel - 1)

InOrderKeys == LET s == InOrder(root, Len(data) + 1)
               IN [i \in 1..Len(s) |-> data[s[i]]]

\* find as the tree's flavour implements it.
Find(key) == IF flavor = "chain" THEN chain_find(Tree, key)
             ELSE container_find(Tree, key)

\* ---- insert, one step of fixup_insert at a time (utility.hxx) ----

\* The insert call in progress: pc is its position in fixup_insert, z0 the
\* node inserted, z the local variable of the loop; rots counts the calls of
\* rotate_left and rotate_right, cases the entries of the rotation case, and
\* moved tells that the recolouring case has been executed.
FixIdle ==
    [pc |-> "idle", z0 |-> NULL, z |-> NULL, rots |-> 0, cases |-> 0,
     moved |-> FALSE]

\* z->parent()->parent()
grandparent(t, z) == t.parent[t.parent[z]]

\* z->parent() == z->parent()->parent()->left()
parent_is_left(t, z) == t.parent[z] = t.left[grandparent(t, z)]

\* Node* y: the other child of the grandparent.
uncle(t, z) ==
    IF parent_is_left(t, z) THEN t.right[grandparent(t, z)]
    ELSE t.left[grandparent(t, z)]

\* y != nullptr && y->color == Node::Red
uncle_is_red(t, z) == uncle(t, z) # NULL /\ t.color[uncle(t, z)] = Red

\* The zig-zag test of the rotation case, on the side the parent is.
fixup_straighten(t, z) ==
    IF parent_is_left(t, z) THEN fixup_straighten_left(t, z)
    ELSE fixup_straighten_right(t, z)

\* The end of the rotation case, on the side the parent is.
fixup_rotate_end(t, z) ==
    IF parent_is_left(t, z) THEN fixup_rotate_right_end(t, z)
    ELSE fixup_rotate_left_end(t, z)

FixNodes == 1..MaxFixNodes

InFixup == fx.pc \in {"loop", "straighten", "end", "black"}

\* The nodes the caller owns, each constructed by link() and carrying its own
\* key; the tree is empty.
FixInit ==
    /\ flavor = "core"
    /\ root = NULL
    /\ count = 0
    /\ left = [n \in FixNodes |-> NULL]
    /\ right = [n \in FixNodes |-> NULL]
    /\ parent = [n \in FixNodes |-> NULL]
    /\ color = [n \in FixNodes |-> Red]
    /\ data = [n \in FixNodes |-> n]
    /\ ub = FALSE
    /\ calls = 0
    /\ seen = {}
    /\ rets = [k \in Keys |-> {}]
    /\ last = NoCall
    /\ skind = "none"
    /\ items = <<>>
    /\ got = NoGet
    /\ DeclIdle
    /\ readers = NoReaders
    /\ farm = NoFarm
    /\ lex = NoLex
    /\ fx = FixIdle

\* A step of the insert call has left the tree as t and the call as f.
Fixed(t, f) ==
    /\ root' = t.root
    /\ count' = t.count
    /\ left' = t.left
    /\ right' = t.right
    /\ parent' = t.parent
    /\ color' = t.color
    /\ data' = t.data
    /\ ub' = t.ub
    /\ fx' = f
    /\ UNCHANGED <<flavor, calls, seen, rets, last>>
    /\ UNCHANGED seqVars
    /\ UNCHANGED declVars
    /\ UNCHANGED <<readers, farm, lex>>

\* insert of the first node: it becomes the Black root, with no fixup.
InsertFirst(z) ==
    /\ flavor = "core"
    /\ fx.pc = "idle"
    /\ root = NULL
    /\ Fixed(chain_insert(Tree, z).t, FixIdle)

\* insert of a fresh node in a tree that is not empty: the node is linked
\* Red where the descent stops, and fixup_insert(z) is entered.
InsertBegins(z) ==
    /\ flavor = "core"
    /\ fx.pc = "idle"
    /\ ~ub
    /\ root # NULL
    /\ z \notin Subtree(root)
    /\ Fixed(link_red(Tree, chain_descent(Tree, z, RootSlot, NULL).slot,
                      chain_descent(Tree, z, RootSlot, NULL).up, z),
             [FixIdle EXCEPT !.pc = "loop", !.z0 = z, !.z = z])

\* The condition of the loop is false.
FixExit ==
    /\ fx.pc = "loop"
    /\ ~ub
    /\ ~fixup_cond(Tree, fx.z)
    /\ Fixed(Tree, [fx EXCEPT !.pc = "black"])

\* The test of the uncle; the grandparent is read for it, and a null
\* grandparent is dereferenced.
takes_recolor(t, z) ==
    IF grandparent(t, z) = NULL THEN TRUE ELSE uncle_is_red(t, z)

\* The recolouring case leaving the colours and z as they are.
fixup_recolor_case_in_vain(t, z) == [t |-> t, z |-> z]

fixup_recolor_case(t, z) ==
    IF grandparent(t, z) = NULL THEN [t |-> [t EXCEPT !.ub = TRUE], z |-> z]
    ELSE fixup_recolor(t, z, uncle(t, z))

\* The uncle is Red: the recolouring case.
FixRecolor ==
    /\ fx.pc = "loop"
    /\ ~ub
    /\ fixup_cond(Tree, fx.z)
    /\ takes_recolor(Tree, fx.z)
    /\ Fixed(fixup_recolor_case(Tree, fx.z).t,
             [fx EXCEPT !.z = fixup_recolor_case(Tree, fx.z).z,
                        !.moved = TRUE])

\* The uncle is absent or Black: the rotation case is entered.
FixRotationCase ==
    /\ fx.pc = "loop"
    /\ ~ub
    /\ fixup_cond(Tree, fx.z)
    /\ ~takes_recolor(Tree, fx.z)
    /\ Fixed(Tree, [fx EXCEPT !.pc = "straighten", !.cases = @ + 1])

\* if (z is the inner child) { z = z->parent(); rotate(z); }
FixStraighten ==
    /\ fx.pc = "straighten"
    /\ ~ub
    /\ Fixed(fixup_straighten(Tree, fx.z).t,
             [fx EXCEPT !.pc = "end",
                        !.z = fixup_straighten(Tree, fx.z).z,
                        !.rots = IF fixup_straighten(Tree, fx.z).z = fx.z
                                   THEN @ ELSE @ + 1])

\* The recolouring of parent and grandparent and the rotation about the
\* grandparent.
FixRotateEnd ==
    /\ fx.pc = "end"
    /\ ~ub
    /\ Fixed(fixup_rotate_end(Tree, fx.z),
             [fx EXCEPT !.pc = "loop", !.rots = @ + 1])

\* root->color = Black; fixup_insert returns and insert counts the node.
FixReturns ==
    /\ fx.pc = "black"
    /\ ~ub
    /\ Fixed(count_up(fixup_root_black(Tree)), [fx EXCEPT !.pc = "idle"])

FixStep ==
    \/ FixExit
    \/ FixRecolor
    \/ FixRotationCase
    \/ FixStraighten
    \/ FixRotateEnd
    \/ FixReturns

FixNext ==
    \/ \E z \in FixNodes : InsertFirst(z)
    \/ \E z \in FixNodes : InsertBegins(z)
    \/ FixStep

FixSpec == FixInit /\ [][FixNext]_vars /\ WF_vars(FixStep)

\* ---- rotate_left and rotate_right called on a node of a tree ----

Directions == {"left", "right"}

\* The child a rotation of x brings up: Node* y = x->right() in rotate_left,
\* Node* y = x->left() in rotate_right.
rotated_to(t, dir, x) == IF dir = "left" THEN t.right[x] ELSE t.left[x]

rotate(t, dir, x) ==
    IF dir = "left" THEN rotate_left(t, x) ELSE rotate_right(t, x)

\* The call rotate_left(x) or rotate_right(x) as the state records it, with
\* what the tree was when it was called: its nodes in in-order, its colours,
\* its root, x's parent and the arm of the parent x was on.
Rotated(t, dir, x) ==
    [pc |-> "rotated", dir |-> dir, x |-> x, y |-> rotated_to(t, dir, x),
     inorder |-> InOrder(root, Len(data) + 1), color |-> t.color,
     root |-> t.root, up |-> t.parent[x],
     arm |-> IF t.parent[x] = NULL THEN "root"
             ELSE IF t.left[t.parent[x]] = x THEN "left" ELSE "right"]

\* rotate_left(x) or rotate_right(x) on a node of the tree, between two
\* inserts or between two steps of fixup_insert.
Rotate(dir, x) ==
    /\ flavor = "core"
    /\ fx.pc # "rotated"
    /\ ~ub
    /\ x \in Subtree(root)
    /\ Fixed(rotate(Tree, dir, x), Rotated(Tree, dir, x))

RotNext ==
    \/ FixNext
    \/ \E dir \in Directions, x \in FixNodes : Rotate(dir, x)

RotSpec == FixInit /\ [][RotNext]_vars

\* ---- C1 ----
\* C1: in a container, all insert calls whose keys compare equal return the
\* same payload (the same node), whatever inserts of other keys, rotations and
\* recolourings happen between them.
C1_SamePayload ==
    flavor = "container" =>
        /\ \A k \in Keys : Cardinality(rets[k]) <= 1
        /\ \A k \in seen : Cardinality(rets[k]) = 1

\* A repeated key returns its payload after the tree has grown and rebalanced
\* around it: the payload's node is no longer where it was linked.
C1_Witness ==
    /\ flavor = "container"
    /\ last.op = "insert"
    /\ ~last.fresh
    /\ rets[last.key] = {last.ret}
    /\ Cardinality(Linked) >= 5
    /\ last.ret # root
    /\ Children(last.ret) # {}

\* ---- C2 ----
\* C2: after every insert into a chain or a container no Red node has a Red
\* parent (seen from the child through its parent link, and from the parent
\* through its left and right links).
C2_NoRedRed ==
    \A n \in Linked :
        color[n] = Red =>
            /\ \A c \in Children(n) : color[c] # Red
            /\ parent[n] # NULL => color[parent[n]] # Red

\* An inner Red node with two Black children, below a Black parent.
C2_Witness ==
    /\ last.op = "insert"
    /\ \E n \in Linked :
          /\ color[n] = Red
          /\ n # root
          /\ color[parent[n]] = Black
          /\ Cardinality(Children(n)) = 2
          /\ \A c \in Children(n) : color[c] = Black

\* ---- C3 ----
\* C3: after every insert every path from the root to a null link has the same
\* number of Black nodes.
C3_BlackHeight ==
    LET bc == BlackCounts(root, Len(data) + 1)
    IN /\ Cardinality(bc) = 1
       /\ \A c \in bc : c >= 0

\* A tree of black height 2 with null links at different depths.
C3_Witness ==
    /\ last.op = "insert"
    /\ BlackCounts(root, Len(data) + 1) = {2}
    /\ \E n \in Linked : n # root /\ Children(n) = {}
    /\ \E n \in Linked : n # root /\ parent[n] # root /\ Children(n) = {}

\* ---- C4 ----
\* C4: after every insert, the first one into the empty tree included, the root
\* is non-null and Black.
C4_RootBlack ==
    calls > 0 => (root # NULL /\ color[root] = Black)

\* The first insert: the node became the root without the fixup.
C4_Witness ==
    /\ calls = 1
    /\ last.op = "insert"
    /\ root = last.ret
    /\ color[root] = Black
    /\ Linked = {root}

\* ---- C5 ----
\* C5: the in-order traversal yields strictly increasing keys: a node's left
\* subtree holds only smaller keys, its right subtree only greater keys, and no
\* two linked nodes compare equal.
C5_Ordered ==
    /\ \A n \in Linked :
          /\ \A m \in Subtree(left[n]) : comp(data[m], data[n]) < 0
          /\ \A m \in Subtree(right[n]) : comp(data[m], data[n]) > 0
    /\ \A a, b \in Linked : a # b => comp(data[a], data[b]) # 0
    /\ \A i, j \in 1..Len(InOrderKeys) :
          i < j => comp(InOrderKeys[i], InOrderKeys[j]) < 0
    /\ Len(InOrderKeys) = Cardinality(Linked)

\* Five nodes or more, and the root is not the first node linked: rotations
\* have rearranged the tree.
C5_Witness ==
    /\ last.op = "insert"
    /\ Len(InOrderKeys) >= 5
    /\ \E n \in Linked : data[n] # data[root] /\ rets[data[n]] # {}
                         /\ Children(n) # {} /\ n # root
    /\ left[root] # NULL
    /\ right[root] # NULL

\* ---- C6 ----
\* C6: after N insert calls with pairwise distinct keys, size() = N and exactly
\* N nodes are reachable from the root.
C6_CountDistinct ==
    calls = Cardinality(seen) =>
        /\ size(Tree) = calls
        /\ Cardinality(Linked) = calls

C6_Witness ==
    /\ calls = Cardinality(seen)
    /\ calls >= 5
    /\ size(Tree) = calls
    /\ last.op = "insert"

\* ---- C7 ----
\* C7: find returns the node whose key compares equal to the key sought when
\* such a key has been inserted (in a container, the payload insert returned
\* for it), and null when no such key was inserted.
FindResultRight(key, r) ==
    IF key \in seen
      THEN /\ r # NULL
           /\ r \in Linked
           /\ comp(key, data[r]) = 0
           /\ flavor = "container" => rets[key] = {r}
      ELSE r = NULL

C7_Find ==
    /\ \A key \in Keys : FindResultRight(key, Find(key))
    /\ last.op = "find" => FindResultRight(last.key, last.ret)

\* find reaches a key that is neither at the root nor where it was linked.
C7_Witness ==
    /\ last.op = "find"
    /\ last.key \in seen
    /\ last.ret # NULL
    /\ last.ret # root
    /\ Children(last.ret) # {}
    /\ Cardinality(Linked) >= 5

\* ---- C8 ----
\* C8: a container insert of a key that compares equal to a key already in the
\* tree allocates no node, constructs no payload and leaves the root, every
\* link and every colour unchanged.
C8_DuplicateInsertFrame ==
    [][(flavor = "container" /\ calls' = calls + 1 /\ ~last'.fresh)
         => UNCHANGED <<root, left, right, parent, color, data>>]_vars

C8_Witness ==
    /\ flavor = "container"
    /\ last.op = "insert"
    /\ ~last.fresh
    /\ Cardinality(Linked) >= 3
    /\ Len(data) = Cardinality(Linked)
    /\ calls > Len(data)

\* ---- C9 ----
\* C9 as stated: the container's size counter counts every insert call,
\* duplicates included.
C9_CountsEveryCall ==
    flavor = "container" => size(Tree) = calls

\* C9 amended: the container's size counter counts the insert calls that
\* allocate a node, so size() is the number of distinct keys inserted.
C9_CountsAllocations ==
    flavor = "container" =>
        /\ size(Tree) = Cardinality(seen)
        /\ size(Tree) = Len(data)

C9_Witness ==
    /\ flavor = "container"
    /\ last.op = "insert"
    /\ ~last.fresh
    /\ calls > size(Tree)
    /\ size(Tree) >= 2

\* ---- C10 ----
\* C10: chain::insert of a node that compares equal to a node already linked
\* returns the node already linked.
C10_ReturnsLinkedNode ==
    (flavor = "chain" /\ last.op = "insert" /\ ~last.fresh) =>
        \A n \in Linked : comp(last.key, data[n]) = 0 => last.ret = n

\* ---- C11 ----
\* C11: chain::insert of a node z that compares equal to a node already linked
\* does not link z: the root, every link and every colour (z's own included)
\* are unchanged, and no error is reported.
C11_DuplicateNotLinked ==
    [][(flavor = "chain" /\ calls' = calls + 1 /\ ~last'.fresh)
         => /\ UNCHANGED <<root, left, right, parent, color, data, ub>>
            /\ (last'.z \in Linked') => (last'.z \in Linked)]_vars

\* A second node with the key of a linked node was passed to insert and stays
\* out of the tree, with the links and colour its constructor gave it.
C11_Witness ==
    /\ flavor = "chain"
    /\ last.op = "insert"
    /\ ~last.fresh
    /\ last.z \notin Linked
    /\ \E n \in Linked : n # root /\ comp(data[last.z], data[n]) = 0
    /\ left[last.z] = NULL /\ right[last.z] = NULL /\ parent[last.z] = NULL
    /\ color[last.z] = Red
    /\ ~ub

\* ---- C12 ----
\* C12: the chain's size counter is incremented only by the insert calls that
\* link a node: size() is the number of nodes linked in the tree.
C12_CountIsLinked ==
    flavor = "chain" => size(Tree) = Cardinality(Linked)

\* ---- C13 ----
\* C13: in every implementation of Sequence, get(i) and operator[](i) with
\* i < 0 or i >= size() throw and return no element.
C13_OutOfRangeThrows ==
    (got.op # "none" /\ (got.i < 0 \/ got.i >= got.size)) =>
        (got.thrown /\ got.value = NULL)

\* ---- C14 ----
\* C14: in every implementation of Sequence, get(i) with 0 <= i < size()
\* returns the element at i and throws nothing; a singleton_declset has size 1
\* and get(0) is its declaration.
C14_InRangeReturns ==
    /\ (got.op # "none" /\ 0 <= got.i /\ got.i < got.size) =>
          (~got.thrown /\ got.value = items[got.i + 1])
    /\ (skind = "singleton" /\ got.op # "none") =>
          /\ got.size = 1
          /\ got.i = 0 => (~got.thrown /\ got.value = items[1])

\* ---- C15 ----
\* Looking up a name that no member of the scope carries never fails: the
\* lookup returns, without throwing, an overload of size 0, and indexing that
\* overload (at position 0 as at any other) throws instead of returning.
C15_AbsenceIsTotal ==
    (got.op # "none" /\ \A i \in 1..Len(items) : items[i] # got.name)
      => /\ ~got.thrown
         /\ got.ov = missing
         /\ got.size = 0
         /\ (got.op = "get") => got.at.thrown

C15_Witness ==
    /\ skind = "homogeneous_scope"
    /\ Len(items) >= 2
    /\ got.op = "get"
    /\ got.i = 0
    /\ \A i \in 1..Len(items) : items[i] # got.name
    /\ got.size = 0
    /\ got.at.thrown

C16_RedeclareShares ==
    [][/\ (dres'.op = "redeclare" /\ Len(drep') = Len(drep) + 1)
            => /\ Len(mdd') = Len(mdd)
               /\ UNCHANGED <<root, count, left, right, parent, color, data,
                              masters>>
               /\ drep'[dres'.ret].master_data = dres'.arg
               /\ mdd'[dres'.arg].declset
                    = Append(mdd[dres'.arg].declset, dres'.ret)
               /\ \A m \in 1..Len(mdd) :
                    m # dres'.arg => mdd'[m] = mdd[m]
       /\ (dres'.op = "declare" /\ Len(drep') = Len(drep) + 1)
            => /\ Len(mdd') = Len(mdd) + 1
               /\ mdd'[Len(mdd')].declset = <<dres'.ret>>
               /\ drep'[dres'.ret].master_data = Len(mdd')]_vars

C16_Witness ==
    /\ dres.op = "redeclare"
    /\ Len(masters) = 1
    /\ Len(mdd) = 1
    /\ Cardinality(Linked) = 1
    /\ Len(mdd[1].declset) = 2
    /\ \A d \in 1..2 : drep[d].master_data = 1

\* ---- C17 ----
\* The overload set has one entry for each type the name was declared with:
\* its size is the number of those types, every master of the list is in the
\* chain of entries, subscripting the overload set by a declared type gives a
\* decl-set that is not empty, and the decl-sets of two distinct types share
\* no declaration.
DeclaredTypes == {mdd[masters[i]].type : i \in 1..Len(masters)}

Shared(a, b) == {a[i] : i \in 1..Len(a)} \cap {b[i] : i \in 1..Len(b)}

C17_OneEntryPerType ==
    flavor = "entries"
      => /\ Overload_size(World) = Cardinality(DeclaredTypes)
         /\ \A i \in 1..Len(masters) : masters[i] \in Linked
         /\ Cardinality(Linked) = Cardinality(DeclaredTypes)
         /\ \A ty \in DeclaredTypes : Overload_subscript(World, ty) # <<>>
         /\ \A t1 \in DeclaredTypes : \A t2 \in DeclaredTypes :
              t1 # t2 => Shared(Overload_subscript(World, t1),
                                Overload_subscript(World, t2)) = {}

C17_Witness ==
    /\ flavor = "entries"
    /\ DeclaredTypes = {1, 2}
    /\ Overload_size(World) = 2
    /\ masters = <<1, 2>>
    /\ mdd[1].type = 2
    /\ Len(Overload_subscript(World, 1)) = 1
    /\ Len(Overload_subscript(World, 2)) = 1

\* ---- C19 ----
\* Registering a declaration as the definition of a decl-set whose definition
\* is another declaration already is signalled as DuplicateDefinition and
\* leaves the definition pointer of the master data as it was.
C19_DefinitionBoundOnce ==
    (dres.op = "define" /\ dres.before # NULL /\ dres.before # dres.arg)
      => /\ dres.outcome = "DuplicateDefinition"
         /\ mdd[drep[dres.arg].master_data].def = dres.before

\* ---- C20 ----
\* An accessor of a declaration that goes through a pointer not bound yet
\* ends with the logic_error of util::check.
C20_UnboundReadThrows ==
    (dres.op \in Accessors /\ dres.unbound) => dres.outcome = "logic_error"

\* ---- C21 ----
\* master() of a declaration made by declare or redeclare, whose master is
\* entered in the overload set, returns the first declaration of its
\* decl-set, the one declare made.
C21_MasterIsFirst ==
    (dres.op = "master"
       /\ \E i \in 1..Len(masters) : masters[i] = drep[dres.arg].master_data)
      => /\ dres.outcome = "returned"
         /\ dres.value = mdd[drep[dres.arg].master_data].declset[1]

\* ---- C22 ----
\* A step of a reader inside find changes neither the root, the size, a link
\* nor a colour of the tree, and whatever the interleaving of the readers'
\* steps a find that returns has the result of the same call made alone on
\* the tree.
C22_FindReadsOnly ==
    [][(\E r \in Readers : readers'[r] # readers[r])
         => /\ UNCHANGED <<root, count, left, right, parent, color, data>>
            /\ \A r \in Readers :
                 readers'[r].pc = "done"
                   => readers'[r].ret = Find(readers'[r].key)]_vars

C22_Witness ==
    /\ Cardinality(Linked) = 3
    /\ readers["r1"].pc = "done"
    /\ readers["r1"].ret # NULL
    /\ readers["r1"].ret # root
    /\ readers["r2"].pc = "loop"
    /\ readers["r2"].cur \in Linked \ {root}
    /\ readers["r2"].key # readers["r1"].key

\* ---- C23 ----
\* Every reference a make or a push_back has returned still refers to an
\* element of the store, the one it was returned for, with the contents it was
\* constructed with: no two elements share an address, and the element at the
\* address of the reference holds the value given to the call.
C23_ReferencesStable ==
    farm.kind # "none"
      => /\ \A i \in 1..Len(farm.refs) :
              \E j \in 1..Len(farm.cells) :
                /\ farm.cells[j].addr = farm.refs[i].addr
                /\ farm.cells[j].val = farm.refs[i].val
         /\ Cardinality(in_use(farm.cells)) = Len(farm.cells)
         /\ Len(farm.cells) = Len(farm.refs)

C23_Witness ==
    /\ farm.kind = "stable_farm"
    /\ Len(farm.refs) = 3
    /\ farm.refs[1].val # farm.refs[3].val
    /\ farm.cells[3].addr = farm.refs[1].addr
    /\ farm.cells[1].addr = farm.refs[3].addr

\* ---- C24 ----
\* lexicographical_compare returns the ordering of the first pair of elements
\* that differ, if the ranges have one at a common position; otherwise 0 for
\* ranges of the same length, a negative value when the first is the shorter
\* and a positive value when the second is.  The signs of compare(a, b) and
\* compare(b, a) are opposite.
Differing(a, b) ==
    {i \in 1..Len(a) : i <= Len(b) /\ comp(a[i], b[i]) # 0}

FirstDiffering(a, b) ==
    CHOOSE i \in Differing(a, b) : \A j \in Differing(a, b) : i <= j

Sign(n) == IF n < 0 THEN 0 - 1 ELSE IF n > 0 THEN 1 ELSE 0

C24_Lexicographical ==
    lex.called
      => /\ Differing(lex.a, lex.b) # {}
              => lex.ab = comp(lex.a[FirstDiffering(lex.a, lex.b)],
                               lex.b[FirstDiffering(lex.a, lex.b)])
         /\ (Differing(lex.a, lex.b) = {} /\ Len(lex.a) = Len(lex.b))
              => lex.ab = 0
         /\ (Differing(lex.a, lex.b) = {} /\ Len(lex.a) < Len(lex.b))
              => lex.ab < 0
         /\ (Differing(lex.a, lex.b) = {} /\ Len(lex.a) > Len(lex.b))
              => lex.ab > 0
         /\ Sign(lex.ab) = 0 - Sign(lex.ba)

C24_Witness ==
    /\ lex.called
    /\ Len(lex.a) = 2
    /\ Len(lex.b) = 3
    /\ Differing(lex.a, lex.b) = {}
    /\ lex.ab < 0
    /\ lex.ba > 0

\* ---- C25 ----
\* Every call of fixup_insert returns: an insert call that is inside
\* fixup_insert is eventually outside of it.
C25_FixupTerminates == InFixup ~> (fx.pc = "idle")

C25_Witness ==
    /\ fx.pc = "loop"
    /\ fx.moved
    /\ fx.z # fx.z0
    /\ fixup_cond(Tree, fx.z)

\* ---- C26 ----
\* An insert enters the rotation case of fixup_insert at most once and calls
\* rotate_left and rotate_right at most twice in all; when the rotation case
\* has been executed z's parent is Black and the condition of the loop is
\* false.
C26_RotationCaseOnce ==
    flavor = "core"
      => /\ fx.cases <= 1
         /\ fx.rots <= 2
         /\ (fx.pc = "loop" /\ fx.cases = 1)
              => /\ color[parent[fx.z]] = Black
                 /\ ~fixup_cond(Tree, fx.z)

C26_Witness ==
    /\ fx.pc = "loop"
    /\ fx.moved
    /\ fx.cases = 1
    /\ fx.rots = 2
    /\ ~fixup_cond(Tree, fx.z)

C29_LinksConsistent ==
    /\ root # NULL => parent[root] = NULL
    /\ \A n \in Linked :
          /\ \A c \in Children(n) : parent[c] = n
          /\ left[n] # NULL => left[n] # right[n]
          /\ n # root
               => Cardinality({m \in Linked : n \in Children(m)}) = 1
          /\ n = root => {m \in Linked : n \in Children(m)} = {}
    /\ Len(InOrder(root, Len(data) + 1)) = Cardinality(Linked)
    /\ {InOrder(root, Len(data) + 1)[i] :
           i \in 1..Len(InOrder(root, Len(data) + 1))} = Linked
    /\ Cardinality(Linked) = Cardinality(seen)

\* An insert has linked a node in a tree of six nodes or more, one of whose
\* inner nodes, not the root, has two children.
C29_Witness ==
    /\ last.op = "insert"
    /\ last.fresh
    /\ Cardinality(Linked) >= 6
    /\ \E n \in Linked : n # root /\ Cardinality(Children(n)) = 2

\* ---- C30 ----
\* homogeneous_scope::operator[](name) returns, when some member carries the
\* name, the singleton overload of the first such member in declaration
\* order, an overload of size 1 whose declaration is that member; it returns
\* the empty overload only when no member carries the name.
C30_FirstMatchingMember ==
    (skind = "homogeneous_scope" /\ got.op # "none")
      => /\ ~got.thrown
         /\ (\E j \in 1..Len(items) : items[j] = got.name)
              => /\ got.ov.kind = "singleton_overload"
                 /\ got.ov.decl \in 1..Len(items)
                 /\ items[got.ov.decl] = got.name
                 /\ \A k \in 1..(got.ov.decl - 1) : items[k] # got.name
                 /\ got.size = 1
         /\ got.ov = missing
              => \A j \in 1..Len(items) : items[j] # got.name

\* Two members carry the name looked up, after one that does not; the
\* overload returned is the one of the second member.
C30_Witness ==
    /\ skind = "homogeneous_scope"
    /\ got.op = "lookup"
    /\ Len(items) = 3
    /\ items[1] # got.name
    /\ items[2] = got.name
    /\ items[3] = got.name
    /\ got.ov = member_overload(1)
    /\ got.ov.decl = 2

====
